---- MODULE Spec2Model ----
(***************************************************************************)
(* Model of the Images scene-graph manager (class Images and its helper    *)
(* functions) of packages/studio-base.  Every public method is one atomic  *)
(* action: the renderer is single threaded, and the only suspension point  *)
(* is the bitmap decode, whose completion is an action of its own.         *)
(*                                                                         *)
(* Strings that the code takes apart (topic names) are sequences of UTF-16 *)
(* code units; `undefined` is a value that is no string.  THREE resources  *)
(* (textures, materials, geometries) are numbered in creation order, 0     *)
(* standing for an `undefined` reference.                                  *)
(***************************************************************************)
EXTENDS Integers, Sequences, FiniteSets, TLC

VARIABLES
    imagesByTopic,      \* Images.imagesByTopic: a Map topic -> renderable
    renderables,        \* every ImageRenderable constructed so far, by number
    children,           \* Images.children (THREE.Object3D)
    visible,            \* Images.visible (THREE.Object3D)
    cameraInfoTopics,   \* Images.cameraInfoTopics
    config,             \* renderer.config.topics: an object topic -> partial settings
    layerErrors,        \* renderer.layerErrors: the (topic, error id) pairs reported
    cameraModels,       \* topics t with renderer.cameras.camerasByTopic.get(t).userData.cameraModel
    pending,            \* createBitmap promises not yet settled, in dispatch order
    textures,           \* every THREE.CanvasTexture constructed so far
    materials,          \* every THREE.MeshBasicMaterial constructed so far
    geometries,         \* every THREE.PlaneGeometry constructed so far
    emitted,            \* renderer.emit("settingsTreeChange", ...) payload paths of the last call
    thrown,             \* whether the last call ended by throwing
    lastCall,           \* the last call: its name and its arguments
    calls               \* number of calls and callbacks run so far

vars == <<imagesByTopic, renderables, children, visible, cameraInfoTopics, config,
          layerErrors, cameraModels, pending, textures, materials, geometries,
          emitted, thrown, lastCall, calls>>

-----------------------------------------------------------------------------
(* Bounds of the model *)

\* calls and callbacks in one behaviour
MaxCalls == 4
\* length of the topic strings the selection specification draws from
MaxLen == 2
\* size of the known camera-info set the selection specification starts from
MaxKnown == 2

-----------------------------------------------------------------------------
(* Values *)

\* the JavaScript value undefined where a string may stand
undefined == <<-1>>

\* the code unit of "/"
SLASH == 47

\* "a/c", "a/i", "b": two topics of one namespace and one of another shape
TopicAC == <<97, SLASH, 99>>
TopicAI == <<97, SLASH, 105>>
TopicB == <<98>>

CREATE_BITMAP_ERR == "CreateBitmap"
MISSING_TRANSFORM == "MISSING_TRANSFORM"

DEFAULT_DISTANCE == 1

DEFAULT_SETTINGS ==
    [visible |-> TRUE, cameraInfoTopic |-> undefined,
     distance |-> DEFAULT_DISTANCE, color |-> "#ffffff"]

\* a CompressedImage carries a format; an Image (raw) has none
Jpeg1 == [format |-> "jpeg", data |-> 1]
Jpeg2 == [format |-> "jpeg", data |-> 2]
Raw == [format |-> "", data |-> 3]
ImageMessages == {Jpeg1, Jpeg2, Raw}

\* stands for the image argument of a call that takes none
NoImage == [format |-> "", data |-> 0]

\* userData.mesh = undefined
NoMesh == [geometry |-> 0, material |-> 0]

\* {...a, ...b}
Merge(a, b) ==
    [k \in (DOMAIN a) \cup (DOMAIN b) |-> IF k \in DOMAIN b THEN b[k] ELSE a[k]]

\* p.cameraInfoTopic of a Partial<LayerSettingsImage>
CameraInfoTopicOf(p) ==
    IF "cameraInfoTopic" \in DOMAIN p THEN p["cameraInfoTopic"] ELSE undefined

\* {} (also what spreading an undefined config entry yields)
NoSettings == [k \in {} |-> 0]

\* new Map(), and an object without keys
EmptyMap == [k \in {} |-> 0]

\* Map.get(key), 0 standing for undefined
Get(map, key) == IF key \in DOMAIN map THEN map[key] ELSE 0

\* Map.set(key, value), object[key] = value
Put(map, key, value) ==
    [k \in (DOMAIN map) \cup {key} |-> IF k = key THEN value ELSE map[k]]

-----------------------------------------------------------------------------
(* Topic matching and auto-selection *)

RECURSIVE split(_)
\* String.prototype.split("/")
split(str) ==
    IF \E i \in 1..Len(str) : str[i] = SLASH
    THEN LET i == CHOOSE j \in 1..Len(str) :
                     /\ str[j] = SLASH
                     /\ \A k \in 1..(j - 1) : str[k] # SLASH
         IN <<SubSeq(str, 1, i - 1)>> \o split(SubSeq(str, i + 1, Len(str)))
    ELSE <<str>>

cameraInfoTopicMatches(topic, cameraInfoTopic) ==
    LET imageParts == split(topic)
        infoParts == split(cameraInfoTopic)
    IN IF Len(imageParts) # Len(infoParts)
       THEN FALSE
       ELSE \A i \in 1..(Len(imageParts) - 1) : imageParts[i] = infoParts[i]

RECURSIVE stringLess(_, _)
\* a < b for strings: code unit by code unit, a proper prefix first
stringLess(a, b) ==
    IF Len(b) = 0 THEN FALSE
    ELSE IF Len(a) = 0 THEN TRUE
    ELSE IF a[1] # b[1] THEN a[1] < b[1]
    ELSE stringLess(Tail(a), Tail(b))

RECURSIVE sort(_)
\* Array.prototype.sort() of an array holding the distinct strings of S
sort(S) ==
    IF S = {} THEN <<>>
    ELSE LET first == CHOOSE x \in S : \A y \in S \ {x} : stringLess(x, y)
         IN <<first>> \o sort(S \ {first})

\* the last element of candidates instead of the first
LastOf(candidates) ==
    IF Len(candidates) = 0 THEN undefined ELSE candidates[Len(candidates)]

\* candidates[0]
FirstOf(candidates) ==
    IF Len(candidates) = 0 THEN undefined ELSE candidates[1]

\* the value of `output` after the call
autoSelectCameraInfoTopic(output, imageTopic, knownTopics) ==
    LET candidates == sort({t \in knownTopics : cameraInfoTopicMatches(imageTopic, t)})
    IN [output EXCEPT !.cameraInfoTopic = FirstOf(candidates)]

-----------------------------------------------------------------------------
(* The manager's state as one value, and the helpers that update it *)

State ==
    [imagesByTopic |-> imagesByTopic, renderables |-> renderables,
     children |-> children, visible |-> visible,
     cameraInfoTopics |-> cameraInfoTopics, config |-> config,
     layerErrors |-> layerErrors, cameraModels |-> cameraModels,
     pending |-> pending, textures |-> textures, materials |-> materials,
     geometries |-> geometries, emitted |-> emitted, thrown |-> thrown]

\* a call begins: nothing emitted, nothing thrown yet
Enter(s) == [s EXCEPT !.emitted = <<>>, !.thrown = FALSE]

\* renderer.emit("settingsTreeChange", { path })
emit(s, path) == [s EXCEPT !.emitted = Append(@, path)]

\* LayerErrors.addToTopic(topic, errorId, message): one entry per (topic, errorId)
addToTopic(s, topic, errorId) ==
    [s EXCEPT !.layerErrors = @ \cup {<<topic, errorId>>}]

\* LayerErrors.removeFromTopic(topic, errorId)
removeFromTopic(s, topic, errorId) ==
    [s EXCEPT !.layerErrors = @ \ {<<topic, errorId>>}]

\* LayerErrors.clearTopic(topic)
clearTopic(s, topic) ==
    [s EXCEPT !.layerErrors = {e \in @ : e[1] # topic}]

\* renderable.userData.texture?.dispose()
disposeTexture(s, r) ==
    LET id == s.renderables[r].texture
    IN IF id = 0 THEN s ELSE [s EXCEPT !.textures[id].disposed = TRUE]

\* renderable.userData.material?.dispose()
disposeMaterial(s, r) ==
    LET id == s.renderables[r].material
    IN IF id = 0 THEN s ELSE [s EXCEPT !.materials[id].disposed = TRUE]

\* renderable.userData.geometry?.dispose()
disposeGeometry(s, r) ==
    LET id == s.renderables[r].geometry
    IN IF id = 0 THEN s ELSE [s EXCEPT !.geometries[id].disposed = TRUE]

\* if (userData.mesh) { renderable.remove(userData.mesh); userData.mesh = undefined; }
removeMesh(s, r) ==
    IF s.renderables[r].mesh # NoMesh
    THEN [s EXCEPT !.renderables[r].children = @ \ {s.renderables[r].mesh},
                   !.renderables[r].mesh = NoMesh]
    ELSE s

\* createMaterial(texture, renderable)
createMaterial(s, r) ==
    [map |-> s.renderables[r].texture,
     color |-> s.renderables[r].settings.color,
     disposed |-> FALSE]

\* rebuildMaterial that leaves the mesh of the old material in place
rebuildMaterialKeepMesh(s, r) ==
    LET s1 == disposeMaterial(s, r)
    IN IF s1.renderables[r].texture # 0
       THEN [s1 EXCEPT !.materials = Append(@, createMaterial(s1, r)),
                       !.renderables[r].material = Len(s1.materials) + 1]
       ELSE [s1 EXCEPT !.renderables[r].material = 0]

rebuildMaterial(s, r) ==
    LET s1 == disposeMaterial(s, r)
        s2 == IF s1.renderables[r].texture # 0
              THEN [s1 EXCEPT !.materials = Append(@, createMaterial(s1, r)),
                              !.renderables[r].material = Len(s1.materials) + 1]
              ELSE [s1 EXCEPT !.renderables[r].material = 0]
    IN removeMesh(s2, r)

\* tryCreateMesh that never builds a mesh
tryCreateMeshNever(s, r) == s

tryCreateMesh(s, r) ==
    LET u == s.renderables[r]
    IN IF u.mesh = NoMesh /\ u.geometry # 0 /\ u.material # 0
       THEN LET mesh == [geometry |-> u.geometry, material |-> u.material]
            IN [s EXCEPT !.renderables[r].mesh = mesh,
                         !.renderables[r].children = @ \cup {mesh}]
       ELSE s

\* createGeometry(cameraModel, depth), for the camera model of cameraInfoTopic
createGeometry(cameraInfoTopic, depth) ==
    [camera |-> cameraInfoTopic, distance |-> depth, disposed |-> FALSE]

\* createBitmap(compressed): a promise registered with its then/catch handlers,
\* which close over the renderable and the topic; submitted remembers the data of
\* the renderable's latest createBitmap call
createBitmap(s, r, compressed) ==
    [s EXCEPT !.pending = Append(@, [renderable |-> r,
                                     topic |-> s.renderables[r].topic,
                                     bitmap |-> compressed.data]),
              !.renderables[r].submitted = compressed.data]

-----------------------------------------------------------------------------
(* Images *)

\* the renderables of imagesByTopic.values()
Mapped(s) == {s.imagesByTopic[t] : t \in DOMAIN s.imagesByTopic}

\* the body of the loop of dispose() without geometry?.dispose()
disposeRenderableLeakGeometry(s, r) ==
    LET s1 == disposeMaterial(disposeTexture(s, r), r)
    IN [s1 EXCEPT !.renderables[r].texture = 0,
                  !.renderables[r].material = 0,
                  !.renderables[r].geometry = 0,
                  !.renderables[r].mesh = NoMesh]

\* the body of the loop of dispose(), for one renderable
disposeRenderable(s, r) ==
    LET s1 == disposeGeometry(disposeMaterial(disposeTexture(s, r), r), r)
    IN [s1 EXCEPT !.renderables[r].texture = 0,
                  !.renderables[r].material = 0,
                  !.renderables[r].geometry = 0,
                  !.renderables[r].mesh = NoMesh]

RECURSIVE disposeEach(_, _)
\* the loop of dispose() over the renderables R
disposeEach(s, R) ==
    IF R = {} THEN s
    ELSE LET r == CHOOSE x \in R : TRUE
         IN disposeEach(disposeRenderable(s, r), R \ {r})

dispose(s) ==
    LET s1 == disposeEach(s, Mapped(s))
    IN [s1 EXCEPT !.children = {},
                  !.imagesByTopic = EmptyMap]

\* a raw image skipped without a throw
unhandledImageIgnored(s) == s

\* throw new Error(`Unhandled ... image`)
unhandledImage(s) == [s EXCEPT !.thrown = TRUE]

\* a comparison of the geometry settings that looks at the camera-info topic alone
geometrySettingsEqualByTopic(newSettings, prevSettings) ==
    newSettings.cameraInfoTopic = prevSettings.cameraInfoTopic

geometrySettingsEqual(newSettings, prevSettings) ==
    /\ newSettings.cameraInfoTopic = prevSettings.cameraInfoTopic
    /\ newSettings.distance = prevSettings.distance

\* a comparison of the material settings that never finds them equal
materialSettingsNeverEqual(newSettings, prevSettings) == FALSE

materialSettingsEqual(newSettings, prevSettings) ==
    newSettings.color = prevSettings.color

\* _updateImageRenderable(renderable, image, settings); s.thrown tells whether it threw
updateImageRenderable(s, r, image, settings) ==
    LET prevSettings == s.renderables[r].settings
        newSettings == Merge(prevSettings, settings)
        s1 == [s EXCEPT !.renderables[r].settings = newSettings]
        \* Dispose of the current geometry if the settings have changed
        s2 == IF ~geometrySettingsEqual(newSettings, prevSettings)
              THEN LET d == disposeGeometry(s1, r)
                   IN removeMesh([d EXCEPT !.renderables[r].geometry = 0], r)
              ELSE s1
        \* Create the plane geometry if needed
        s3 == IF /\ CameraInfoTopicOf(settings) # undefined
                 /\ s2.renderables[r].geometry = 0
                 /\ CameraInfoTopicOf(settings) \in s2.cameraModels
              THEN LET distance == s2.renderables[r].settings.distance
                       geometry == createGeometry(CameraInfoTopicOf(settings), distance)
                   IN removeMesh(
                        [s2 EXCEPT !.geometries = Append(@, geometry),
                                   !.renderables[r].geometry = Len(s2.geometries) + 1], r)
              ELSE s2
    IN IF image.format # ""
       THEN \* Create or update the bitmap texture
            LET s4 == createBitmap(s3, r, image)
                \* Create or update the material if needed
                s5 == IF \/ s4.renderables[r].material = 0
                         \/ ~materialSettingsEqual(newSettings, prevSettings)
                      THEN rebuildMaterial(s4, r)
                      ELSE s4
            IN tryCreateMesh(s5, r)
       ELSE unhandledImage(s3)

\* new THREE.Object3D() as ImageRenderable, with its userData
newRenderable(topic, image, userSettings) ==
    [topic |-> topic,
     settings |-> Merge(DEFAULT_SETTINGS, userSettings),
     image |-> image,
     pose |-> "identity",
     visible |-> TRUE,
     texture |-> 0, material |-> 0, geometry |-> 0, mesh |-> NoMesh,
     children |-> {},
     submitted |-> NoImage.data]

\* the selected topic alone, the user's other settings dropped
onlyCameraInfoTopic(userSettings, selected) ==
    [cameraInfoTopic |-> selected]

\* { ...userSettings } with cameraInfoTopic set to the selected topic
updatedUserSettings(userSettings, selected) ==
    Merge(userSettings, [cameraInfoTopic |-> selected])

addImageMessage(s, topic, image) ==
    LET userSettings == IF topic \in DOMAIN s.config THEN s.config[topic] ELSE NoSettings
        \* Create an ImageRenderable for this topic if it doesn't already exist
        s1 == IF Get(s.imagesByTopic, topic) = 0
              THEN LET new == Len(s.renderables) + 1
                   IN [s EXCEPT !.renderables =
                                    Append(@, newRenderable(topic, image, userSettings)),
                                !.children = @ \cup {new},
                                !.imagesByTopic = Put(@, topic, new)]
              ELSE s
        r == Get(s1.imagesByTopic, topic)
        \* Auto-select settings.cameraInfoTopic if it's not already set
        s2 == IF s1.renderables[r].settings.cameraInfoTopic = undefined
              THEN LET settings == autoSelectCameraInfoTopic(
                                       s1.renderables[r].settings, topic, s1.cameraInfoTopics)
                       sel == [s1 EXCEPT !.renderables[r].settings = settings]
                   IN IF settings.cameraInfoTopic # undefined
                      THEN LET updated ==
                                   updatedUserSettings(userSettings, settings.cameraInfoTopic)
                           IN emit([sel EXCEPT !.config = Put(@, topic, updated)],
                                   <<"topics", topic>>)
                      ELSE sel
              ELSE s1
    IN updateImageRenderable(s2, r, image, s2.renderables[r].settings)

addCameraInfoMessage(s, topic) ==
    LET updated == topic \notin s.cameraInfoTopics
        s1 == [s EXCEPT !.cameraInfoTopics = @ \cup {topic}]
        r == Get(s1.imagesByTopic, topic)
        s2 == IF r # 0
              THEN updateImageRenderable(s1, r, s1.renderables[r].image,
                                         s1.renderables[r].settings)
              ELSE s1
    IN IF s2.thrown THEN s2
       ELSE IF updated THEN emit(s2, <<"topics">>)
       ELSE s2

\* setTopicSettings that keeps the settings of a topic without renderable in the
\* configuration store
setTopicSettingsKept(s, topic, settings) ==
    LET r == Get(s.imagesByTopic, topic)
    IN IF r # 0
       THEN updateImageRenderable(s, r, s.renderables[r].image, settings)
       ELSE [s EXCEPT !.config = Put(@, topic, settings)]

setTopicSettings(s, topic, settings) ==
    LET r == Get(s.imagesByTopic, topic)
    IN IF r # 0
       THEN updateImageRenderable(s, r, s.renderables[r].image, settings)
       ELSE s

\* the body of the loop of startFrame without the clearTopic of an invisible renderable
startFrameRenderableKeepErrors(s, r, updated) ==
    LET s1 == [s EXCEPT !.renderables[r].visible = s.renderables[r].settings.visible]
        topic == s1.renderables[r].topic
    IN IF ~s1.renderables[r].visible
       THEN s1
       ELSE IF updated
            THEN [s1 EXCEPT !.renderables[r].pose = "resolved"]
            ELSE addToTopic(s1, topic, MISSING_TRANSFORM)

\* the body of the loop of startFrame, for one renderable; updated is updatePose's result
startFrameRenderable(s, r, updated) ==
    LET s1 == [s EXCEPT !.renderables[r].visible = s.renderables[r].settings.visible]
        topic == s1.renderables[r].topic
    IN IF ~s1.renderables[r].visible
       THEN clearTopic(s1, topic)
       ELSE IF updated
            THEN [s1 EXCEPT !.renderables[r].pose = "resolved"]
            ELSE addToTopic(s1, topic, MISSING_TRANSFORM)

RECURSIVE startFrameEach(_, _, _)
\* the loop of startFrame over the renderables R; updatePose succeeds for those of ok
startFrameEach(s, R, ok) ==
    IF R = {} THEN s
    ELSE LET r == CHOOSE x \in R : TRUE
         IN startFrameEach(startFrameRenderable(s, r, r \in ok), R \ {r}, ok)

\* startFrame that hides the manager for unknown frame ids and runs its loop all the same
startFrameHiddenLoop(s, renderFrameId, fixedFrameId, ok) ==
    IF renderFrameId = undefined \/ fixedFrameId = undefined
    THEN startFrameEach([s EXCEPT !.visible = FALSE], Mapped(s), ok)
    ELSE startFrameEach([s EXCEPT !.visible = TRUE], Mapped(s), ok)

\* startFrame(currentTime), with renderer.renderFrameId and renderer.fixedFrameId as read
startFrame(s, renderFrameId, fixedFrameId, ok) ==
    IF renderFrameId = undefined \/ fixedFrameId = undefined
    THEN [s EXCEPT !.visible = FALSE]
    ELSE startFrameEach([s EXCEPT !.visible = TRUE], Mapped(s), ok)

\* the then-handler of createBitmap, for the promise at position i of pending
bitmapResolved(s, i) ==
    LET p == s.pending[i]
        r == p.renderable
        s1 == [s EXCEPT !.pending = SubSeq(@, 1, i - 1) \o SubSeq(@, i + 1, Len(@))]
        s2 == IF s1.renderables[r].texture = 0
              THEN LET texture == [image |-> p.bitmap, disposed |-> FALSE]
                       t1 == [s1 EXCEPT !.textures = Append(@, texture),
                                        !.renderables[r].texture = Len(s1.textures) + 1]
                   IN tryCreateMesh(rebuildMaterial(t1, r), r)
              ELSE [s1 EXCEPT !.textures[s1.renderables[r].texture].image = p.bitmap]
    IN removeFromTopic(s2, p.topic, CREATE_BITMAP_ERR)

\* a catch-handler that reports nothing
bitmapRejectedUnreported(s, i) ==
    [s EXCEPT !.pending = SubSeq(@, 1, i - 1) \o SubSeq(@, i + 1, Len(@))]

\* the catch-handler of createBitmap, for the promise at position i of pending
bitmapRejected(s, i) ==
    LET p == s.pending[i]
        s1 == [s EXCEPT !.pending = SubSeq(@, 1, i - 1) \o SubSeq(@, i + 1, Len(@))]
    IN addToTopic(s1, p.topic, CREATE_BITMAP_ERR)

-----------------------------------------------------------------------------
(* Inputs *)

\* the topics image messages arrive on, and those CameraInfo messages arrive on
ImageTopics == {TopicAI, TopicAC}
InfoTopics == {TopicAC, TopicB}

\* the camera-info topics whose camera model the Cameras layer can come to hold
CameraTopics == {TopicAC}

\* the settings objects handed to setTopicSettings
SettingsInputs ==
    {NoSettings,
     [color |-> "#ff0000"],
     [distance |-> 2],
     [visible |-> FALSE],
     [cameraInfoTopic |-> TopicAC],
     [cameraInfoTopic |-> undefined]}

\* renderer.config.topics as the user left it before the manager is constructed
InitialConfigs ==
    {(TopicAI :> [color |-> "#ff0000", distance |-> 2])
        @@ (TopicAC :> [cameraInfoTopic |-> TopicAC])}

\* the values renderer.renderFrameId and renderer.fixedFrameId take
FrameIds == {undefined, <<102>>}

\* a call record with no argument filled in
NoArguments ==
    [op |-> "", topic |-> undefined, image |-> NoImage, settings |-> NoSettings,
     renderFrameId |-> undefined, fixedFrameId |-> undefined, ok |-> {}]

-----------------------------------------------------------------------------
(* Specification *)

Init ==
    /\ imagesByTopic = EmptyMap
    /\ renderables = <<>>
    /\ children = {}
    /\ visible = TRUE
    /\ cameraInfoTopics = {}
    /\ config \in InitialConfigs
    /\ layerErrors = {}
    /\ cameraModels = {}
    /\ pending = <<>>
    /\ textures = <<>>
    /\ materials = <<>>
    /\ geometries = <<>>
    /\ emitted = <<>>
    /\ thrown = FALSE
    /\ lastCall = [NoArguments EXCEPT !.op = "constructor"]
    /\ calls = 0

\* the call op runs with the arguments args and leaves the manager as s
BecomesWith(s, op, args) ==
    /\ calls < MaxCalls
    /\ calls' = calls + 1
    /\ lastCall' = Merge([NoArguments EXCEPT !.op = op], args)
    /\ imagesByTopic' = s.imagesByTopic
    /\ renderables' = s.renderables
    /\ children' = s.children
    /\ visible' = s.visible
    /\ cameraInfoTopics' = s.cameraInfoTopics
    /\ config' = s.config
    /\ layerErrors' = s.layerErrors
    /\ cameraModels' = s.cameraModels
    /\ pending' = s.pending
    /\ textures' = s.textures
    /\ materials' = s.materials
    /\ geometries' = s.geometries
    /\ emitted' = s.emitted
    /\ thrown' = s.thrown

\* the call op(topic, image) runs and leaves the manager as s
Becomes(s, op, topic, image) ==
    BecomesWith(s, op, [topic |-> topic, image |-> image])

\* the settings objects setTopicSettings(topic, ...) is called with: the inputs, and
\* the current settings of the topic's renderable
SettingsFor(topic) ==
    SettingsInputs \cup
        {renderables[imagesByTopic[t]].settings : t \in {topic} \cap DOMAIN imagesByTopic}

AddImageMessage ==
    \E topic \in ImageTopics, image \in ImageMessages :
        Becomes(addImageMessage(Enter(State), topic, image),
                "addImageMessage", topic, image)

AddCameraInfoMessage ==
    \E topic \in InfoTopics :
        Becomes(addCameraInfoMessage(Enter(State), topic), "addCameraInfoMessage", topic,
                NoImage)

SetTopicSettings ==
    \E topic \in ImageTopics :
        \E settings \in SettingsFor(topic) :
            BecomesWith(setTopicSettings(Enter(State), topic, settings), "setTopicSettings",
                        [topic |-> topic, settings |-> settings])

StartFrame ==
    \E renderFrameId \in FrameIds, fixedFrameId \in FrameIds, ok \in SUBSET Mapped(State) :
        BecomesWith(startFrame(Enter(State), renderFrameId, fixedFrameId, ok),
                    "startFrame", [renderFrameId |-> renderFrameId,
                                   fixedFrameId |-> fixedFrameId, ok |-> ok])

Dispose ==
    Becomes(dispose(Enter(State)), "dispose", undefined, NoImage)

\* a createBitmap promise is fulfilled
BitmapResolved ==
    \E i \in 1..Len(pending) :
        Becomes(bitmapResolved(Enter(State), i), "bitmapResolved", pending[i].topic,
                NoImage)

\* a createBitmap promise is rejected
BitmapRejected ==
    \E i \in 1..Len(pending) :
        Becomes(bitmapRejected(Enter(State), i), "bitmapRejected", pending[i].topic,
                NoImage)

\* the Cameras layer obtains the camera model of a camera-info topic
CameraModelLoaded ==
    \E topic \in CameraTopics \ cameraModels :
        /\ cameraModels' = cameraModels \cup {topic}
        /\ UNCHANGED <<imagesByTopic, renderables, children, visible, cameraInfoTopics,
                       config, layerErrors, pending, textures, materials, geometries,
                       emitted, thrown, lastCall, calls>>

Next ==
    \/ AddImageMessage
    \/ AddCameraInfoMessage
    \/ SetTopicSettings
    \/ StartFrame
    \/ Dispose
    \/ BitmapResolved
    \/ BitmapRejected
    \/ CameraModelLoaded

Spec == Init /\ [][Next]_vars

-----------------------------------------------------------------------------
(* Specification of the auto-selection alone: the first image message of a  *)
(* topic arrives at a manager that knows any few camera-info topics         *)

RECURSIVE StringsOver(_, _)
\* the strings of at most n code units of alphabet
StringsOver(alphabet, n) ==
    IF n = 0 THEN {<<>>}
    ELSE LET shorter == StringsOver(alphabet, n - 1)
         IN shorter \cup {<<c>> \o str : c \in alphabet, str \in shorter}

\* topic names over "/", "a", "b"
SelectTopics == StringsOver({SLASH, 97, 98}, MaxLen)

RECURSIVE SubsetsUpTo(_, _)
\* the subsets of S of at most n elements
SubsetsUpTo(S, n) ==
    IF n = 0 THEN {{}}
    ELSE LET smaller == SubsetsUpTo(S, n - 1)
         IN smaller \cup {K \cup {x} : K \in smaller, x \in S}

InitSelect ==
    /\ imagesByTopic = EmptyMap
    /\ renderables = <<>>
    /\ children = {}
    /\ visible = TRUE
    /\ cameraInfoTopics \in SubsetsUpTo(SelectTopics, MaxKnown)
    /\ config = EmptyMap
    /\ layerErrors = {}
    /\ cameraModels = {}
    /\ pending = <<>>
    /\ textures = <<>>
    /\ materials = <<>>
    /\ geometries = <<>>
    /\ emitted = <<>>
    /\ thrown = FALSE
    /\ lastCall = [NoArguments EXCEPT !.op = "constructor"]
    /\ calls = 0

FirstImageMessage ==
    \E topic \in SelectTopics :
        /\ calls = 0
        /\ Becomes(addImageMessage(Enter(State), topic, Jpeg1),
                   "addImageMessage", topic, Jpeg1)

SpecSelect == InitSelect /\ [][FirstImageMessage]_vars

-----------------------------------------------------------------------------
(* Properties *)

\* the numbers of all renderables constructed so far, removed ones included
Renderables == 1..Len(renderables)

\* this step is a call of op (or, for a decode handler, a run of it)
Called(op) == calls' = calls + 1 /\ lastCall'.op = op

\* the sequence seq without its element at position i
Without(seq, i) == SubSeq(seq, 1, i - 1) \o SubSeq(seq, i + 1, Len(seq))

\* C1: in every reachable state a renderable has a mesh only if it has a geometry
\* and a material, and the mesh pairs exactly that geometry and that material,
\* neither of them disposed.
MeshPairsCurrentResources ==
    \A r \in Renderables :
        LET u == renderables[r]
        IN u.mesh # NoMesh =>
              /\ u.geometry # 0 /\ u.material # 0
              /\ u.mesh = [geometry |-> u.geometry, material |-> u.material]
              /\ ~geometries[u.geometry].disposed
              /\ ~materials[u.material].disposed

\* a renderable carries a mesh that was built after its first material was replaced
MeshRebuiltAfterReplacement ==
    \E r \in Renderables :
        /\ renderables[r].mesh # NoMesh
        /\ renderables[r].material > 1
        /\ materials[1].disposed

\* C2 as claimed: after every finished operation or decode completion, the raw-image
\* failure included, a renderable has a mesh if and only if it has a geometry and
\* a material.
MeshIffGeometryAndMaterial ==
    \A r \in Renderables :
        LET u == renderables[r]
        IN u.mesh # NoMesh <=> (u.geometry # 0 /\ u.material # 0)

\* C3: a dispose() step empties the topic map and the children, releases every
\* texture, material and geometry held by a renderable of the topic map, clears the
\* four references of each of these renderables, and does not throw; a second
\* dispose() run in the state it leaves changes nothing and does not throw.
DisposeReleasesEverything ==
    [][Called("dispose") =>
          /\ imagesByTopic' = EmptyMap
          /\ children' = {}
          /\ ~thrown'
          /\ \A r \in Mapped(State) :
                LET u == renderables[r]
                    v == renderables'[r]
                IN /\ u.texture # 0 => textures'[u.texture].disposed
                   /\ u.material # 0 => materials'[u.material].disposed
                   /\ u.geometry # 0 => geometries'[u.geometry].disposed
                   /\ v.texture = 0 /\ v.material = 0 /\ v.geometry = 0
                   /\ v.mesh = NoMesh
          /\ dispose(Enter(State))' = State'
      ]_vars

\* dispose() has just released a texture, a material and a geometry
DisposedAFullRenderable ==
    /\ lastCall.op = "dispose"
    /\ \E i \in 1..Len(textures) : textures[i].disposed
    /\ \E i \in 1..Len(materials) : materials[i].disposed
    /\ \E i \in 1..Len(geometries) : geometries[i].disposed

\* C4 as claimed: the completion of a decode whose renderable is no longer in the
\* topic map changes neither the topic map, the children nor the reported errors,
\* and creates no texture and no material.
StaleDecodeIsNoOp ==
    [][\A i \in 1..Len(pending) :
          ( /\ (Called("bitmapResolved") \/ Called("bitmapRejected"))
            /\ pending' = Without(pending, i)
            /\ pending[i].renderable \notin Mapped(State) )
          => /\ imagesByTopic' = imagesByTopic
             /\ children' = children
             /\ layerErrors' = layerErrors
             /\ textures' = textures
             /\ materials' = materials
      ]_vars

\* the number of "/" in the string str
SlashCount(str) == Cardinality({i \in 1..Len(str) : str[i] = SLASH})

\* the position of the k-th "/" of str; 0 for k = 0, and past the end for k beyond the last
SlashAt(str, k) ==
    IF k = 0 THEN 0
    ELSE IF k > SlashCount(str) THEN Len(str) + 1
    ELSE CHOOSE i \in 1..Len(str) :
             /\ str[i] = SLASH
             /\ Cardinality({j \in 1..i : str[j] = SLASH}) = k

\* the k-th of the segments that the "/" of str separate
Segment(str, k) == SubSeq(str, SlashAt(str, k - 1) + 1, SlashAt(str, k) - 1)

\* "matches" as the specification words it: the same number of segments, and all
\* segments but the last equal
Matches(imageTopic, infoTopic) ==
    /\ SlashCount(imageTopic) = SlashCount(infoTopic)
    /\ \A k \in 1..SlashCount(imageTopic) : Segment(imageTopic, k) = Segment(infoTopic, k)

\* a comes strictly before b in lexicographic order
Before(a, b) ==
    \E i \in 1..Len(b) :
        /\ \A j \in 1..(i - 1) : j <= Len(a) /\ a[j] = b[j]
        /\ (i > Len(a) \/ a[i] < b[i])

\* the known camera-info topics that match the image topic
MatchingKnown(imageTopic, known) == {t \in known : Matches(imageTopic, t)}

\* the lexicographically smallest topic of the non-empty set M
Smallest(M) == CHOOSE m \in M : \A x \in M \ {m} : Before(m, x)

\* C5: after the first image message of a topic, the renderable's cameraInfoTopic
\* is the lexicographically smallest known camera-info topic that matches the image
\* topic, and is unset if none matches.
AutoSelectsSmallestMatch ==
    lastCall.op = "addImageMessage" =>
        LET topic == lastCall.topic
            selected == renderables[imagesByTopic[topic]].settings.cameraInfoTopic
            M == MatchingKnown(topic, cameraInfoTopics)
        IN /\ M = {} => selected = undefined
           /\ M # {} => /\ selected \in M
                        /\ \A x \in M \ {selected} : Before(selected, x)

\* an image message arrived while two matching camera-info topics were known
SelectedAmongTwoMatches ==
    /\ lastCall.op = "addImageMessage"
    /\ Cardinality(MatchingKnown(lastCall.topic, cameraInfoTopics)) = 2
    /\ renderables[imagesByTopic[lastCall.topic]].settings.cameraInfoTopic # undefined

\* C6: an addImageMessage(topic, image) step writes the auto-selected topic into
\* config[topic], keeping the entry's other fields and the other entries, and emits
\* exactly the event of path [topics, topic], if and only if the renderable's
\* cameraInfoTopic was unset when the call began (for a topic without renderable:
\* the user's entry sets none) and a matching camera-info topic is known; otherwise
\* it leaves config alone and emits nothing.
AutoSelectionPersisted ==
    [][Called("addImageMessage") =>
          LET topic == lastCall'.topic
              entry == IF topic \in DOMAIN config THEN config[topic] ELSE NoSettings
              r == Get(imagesByTopic, topic)
              unset == IF r # 0
                       THEN renderables[r].settings.cameraInfoTopic = undefined
                       ELSE CameraInfoTopicOf(entry) = undefined
              M == MatchingKnown(topic, cameraInfoTopics)
          IN IF unset /\ M # {}
             THEN /\ DOMAIN config' = (DOMAIN config) \cup {topic}
                  /\ \A t \in (DOMAIN config) \ {topic} : config'[t] = config[t]
                  /\ DOMAIN config'[topic] = (DOMAIN entry) \cup {"cameraInfoTopic"}
                  /\ \A k \in (DOMAIN entry) \ {"cameraInfoTopic"} :
                        config'[topic][k] = entry[k]
                  /\ config'[topic]["cameraInfoTopic"] = Smallest(M)
                  /\ emitted' = << <<"topics", topic>> >>
             ELSE /\ config' = config
                  /\ emitted' = <<>>
      ]_vars

\* addImageMessage has just written a selection into an entry that held other fields
SelectionWrittenBesideUserFields ==
    /\ lastCall.op = "addImageMessage"
    /\ emitted = << <<"topics", lastCall.topic>> >>
    /\ "color" \in DOMAIN config[lastCall.topic]
    /\ "cameraInfoTopic" \in DOMAIN config[lastCall.topic]

\* C7 as claimed: an addCameraInfoMessage(topic) step emits the event of path
\* [topics] exactly once if the topic was not yet known, adding it to the known
\* set, and emits nothing and leaves the known set alone if it was known.
CameraInfoEventOncePerTopic ==
    [][Called("addCameraInfoMessage") =>
          LET topic == lastCall'.topic
          IN IF topic \notin cameraInfoTopics
             THEN /\ cameraInfoTopics' = cameraInfoTopics \cup {topic}
                  /\ emitted' = << <<"topics">> >>
             ELSE /\ cameraInfoTopics' = cameraInfoTopics
                  /\ emitted' = <<>>
      ]_vars

\* the number of decodes in flight that were started for renderable r
InFlight(queue, r) == Cardinality({i \in 1..Len(queue) : queue[i].renderable = r})

\* C8 as claimed: when an addCameraInfoMessage step learns a new topic, every
\* renderable of the topic map whose image topic matches it is updated (a decode is
\* started for its image, or its raw image makes the call throw), and each of them
\* that had no cameraInfoTopic has one afterwards.
NewCameraInfoRefreshesMatching ==
    [][(Called("addCameraInfoMessage") /\ lastCall'.topic \notin cameraInfoTopics) =>
          \A t \in DOMAIN imagesByTopic :
              Matches(t, lastCall'.topic) =>
                  LET r == imagesByTopic[t]
                  IN /\ \/ InFlight(pending', r) = InFlight(pending, r) + 1
                        \/ renderables[r].image.format = "" /\ thrown'
                     /\ renderables[r].settings.cameraInfoTopic = undefined
                           => renderables'[r].settings.cameraInfoTopic # undefined
      ]_vars

\* C9: a step that updates a renderable with a raw image (addImageMessage with a
\* raw image; setTopicSettings or addCameraInfoMessage on a topic whose renderable
\* stores a raw image) ends by throwing, starts no decode and creates no texture.
RawImageAlwaysThrows ==
    [][( \/ Called("addImageMessage") /\ lastCall'.image.format = ""
         \/ /\ (Called("setTopicSettings") \/ Called("addCameraInfoMessage"))
            /\ Get(imagesByTopic, lastCall'.topic) # 0
            /\ renderables[Get(imagesByTopic, lastCall'.topic)].image.format = "" )
       => /\ thrown'
          /\ pending' = pending
          /\ textures' = textures
      ]_vars

\* setTopicSettings has just thrown on a renderable that stores a raw image
SetTopicSettingsThrew ==
    /\ lastCall.op = "setTopicSettings"
    /\ thrown
    /\ Get(imagesByTopic, lastCall.topic) # 0

\* C10: a decode completion does not throw; a failed decode adds exactly the entry
\* (topic, CreateBitmap) to the reported errors and leaves every renderable and
\* every texture, material and geometry as it was; a successful decode leaves no
\* (topic, CreateBitmap) entry.
DecodeCompletionIsContained ==
    [][/\ Called("bitmapRejected") =>
             /\ ~thrown'
             /\ layerErrors' = layerErrors \cup {<<lastCall'.topic, CREATE_BITMAP_ERR>>}
             /\ renderables' = renderables
             /\ textures' = textures
             /\ materials' = materials
             /\ geometries' = geometries
       /\ Called("bitmapResolved") =>
             /\ ~thrown'
             /\ <<lastCall'.topic, CREATE_BITMAP_ERR>> \notin layerErrors'
      ]_vars

\* a decode has just failed for a renderable that keeps showing its earlier texture
DecodeFailedOverTexture ==
    /\ lastCall.op = "bitmapRejected"
    /\ <<lastCall.topic, CREATE_BITMAP_ERR>> \in layerErrors
    /\ Get(imagesByTopic, lastCall.topic) # 0
    /\ renderables[Get(imagesByTopic, lastCall.topic)].texture # 0
    /\ renderables[Get(imagesByTopic, lastCall.topic)].material # 0

\* the renderable of the topic of the last call, 0 if it has none
Target == Get(imagesByTopic, lastCall'.topic)

\* C11: setTopicSettings(topic, s) with s equal to the current settings of the
\* topic's renderable, which has a geometry, a material and a mesh, leaves the
\* three in place: none is disposed, replaced or detached, none is created.
CurrentSettingsRebuildNothing ==
    [][( /\ Called("setTopicSettings")
         /\ Target # 0
         /\ lastCall'.settings = renderables[Target].settings
         /\ renderables[Target].geometry # 0
         /\ renderables[Target].material # 0
         /\ renderables[Target].mesh # NoMesh )
       => /\ renderables'[Target].geometry = renderables[Target].geometry
          /\ renderables'[Target].material = renderables[Target].material
          /\ renderables'[Target].mesh = renderables[Target].mesh
          /\ renderables'[Target].children = renderables[Target].children
          /\ renderables'[Target].settings = renderables[Target].settings
          /\ geometries' = geometries
          /\ materials' = materials
      ]_vars

\* setTopicSettings has just run with the current settings of a renderable that
\* shows a mesh, and has sent the stored image to decoding once more
SetCurrentSettingsOnMesh ==
    /\ lastCall.op = "setTopicSettings"
    /\ Get(imagesByTopic, lastCall.topic) # 0
    /\ LET u == renderables[Get(imagesByTopic, lastCall.topic)]
       IN /\ lastCall.settings = u.settings
          /\ u.mesh # NoMesh
          /\ u.mesh.geometry = u.geometry
          /\ u.mesh.material = u.material
          /\ ~thrown
          /\ InFlight(pending, Get(imagesByTopic, lastCall.topic)) > 0

\* a step of one of the three calls that update the renderable of their topic
Updates ==
    \/ Called("addImageMessage")
    \/ Called("setTopicSettings")
    \/ Called("addCameraInfoMessage")

\* C12: an update of a renderable that has a geometry disposes that geometry, and
\* detaches the mesh built on it, exactly when the merged settings differ from the
\* previous ones in cameraInfoTopic or distance; otherwise (a change of color or
\* of visible alone included) the renderable keeps the same geometry, undisposed.
GeometryDisposedIffGeometrySettingsChange ==
    [][( /\ Updates
         /\ Target # 0
         /\ renderables[Target].geometry # 0 )
       => LET before == renderables[Target]
              after == renderables'[Target]
              g == before.geometry
              changed == \/ after.settings.cameraInfoTopic # before.settings.cameraInfoTopic
                         \/ after.settings.distance # before.settings.distance
          IN /\ geometries'[g].disposed <=> (geometries[g].disposed \/ changed)
             /\ changed => /\ after.geometry # g
                            /\ before.mesh \notin after.children
                            /\ (after.mesh # before.mesh \/ before.mesh = NoMesh)
             /\ ~changed => after.geometry = g
      ]_vars

\* setTopicSettings has just changed the distance alone of a renderable that showed
\* a mesh: its geometry is disposed and its mesh gone, its material is kept
DistanceChangeDisposedGeometry ==
    /\ lastCall.op = "setTopicSettings"
    /\ lastCall.settings = [distance |-> 2]
    /\ Get(imagesByTopic, lastCall.topic) # 0
    /\ LET u == renderables[Get(imagesByTopic, lastCall.topic)]
       IN /\ u.settings.distance = 2
          /\ u.geometry = 0
          /\ u.mesh = NoMesh
          /\ u.children = {}
          /\ u.material # 0
          /\ \E g \in 1..Len(geometries) :
                 geometries[g].disposed /\ geometries[g].distance = DEFAULT_DISTANCE

\* C13: setTopicSettings for a topic that has no renderable changes nothing: the
\* topic map, the children, the known camera-info topics, the configuration and
\* the reported errors stay as they were, as do all renderables and resources; no
\* decode is started, no event is emitted and the call does not throw.
SetTopicSettingsWithoutRenderableIsNoOp ==
    [][( Called("setTopicSettings") /\ Target = 0 )
       => /\ imagesByTopic' = imagesByTopic
          /\ children' = children
          /\ cameraInfoTopics' = cameraInfoTopics
          /\ config' = config
          /\ layerErrors' = layerErrors
          /\ pending' = pending
          /\ emitted' = <<>>
          /\ ~thrown'
          /\ renderables' = renderables
          /\ visible' = visible
          /\ <<textures', materials', geometries'>> = <<textures, materials, geometries>>
      ]_vars

\* setTopicSettings has just run with settings to change for a topic without
\* renderable, while another topic has one and the store holds reported errors
SetSettingsOfUnknownTopic ==
    /\ lastCall.op = "setTopicSettings"
    /\ lastCall.settings # NoSettings
    /\ Get(imagesByTopic, lastCall.topic) = 0
    /\ imagesByTopic # EmptyMap
    /\ layerErrors # {}

\* the frame ids the last startFrame call read were both known
FramesKnown(call) ==
    call.renderFrameId # undefined /\ call.fixedFrameId # undefined

\* C15: startFrame with the render frame id or the fixed frame id unknown hides the
\* manager and does nothing else: no renderable changes (visibility and pose
\* included), and no reported error is added or cleared.
StartFrameWithoutFramesOnlyHides ==
    [][( Called("startFrame") /\ ~FramesKnown(lastCall') )
       => /\ ~visible'
          /\ renderables' = renderables
          /\ layerErrors' = layerErrors
          /\ imagesByTopic' = imagesByTopic
          /\ children' = children
          /\ pending' = pending
          /\ ~thrown'
      ]_vars

\* startFrame has just run without a fixed frame id: the manager is hidden, while a
\* renderable whose settings hide it still counts as visible and keeps its
\* reported error, and one whose pose could have been resolved keeps its pose
StartFrameLeftRenderablesAlone ==
    /\ lastCall.op = "startFrame"
    /\ lastCall.renderFrameId # undefined
    /\ lastCall.fixedFrameId = undefined
    /\ ~visible
    /\ \E r \in Mapped(State) :
          /\ ~renderables[r].settings.visible
          /\ renderables[r].visible
          /\ r \in lastCall.ok
          /\ renderables[r].pose = "identity"
          /\ \E e \in layerErrors : e[1] = renderables[r].topic

\* C16: startFrame with both frame ids known does not throw and, for every
\* renderable of the topic map: its visibility becomes settings.visible; if that is
\* false, no reported error is left for its topic and its pose is not resolved; if
\* it is true and the pose resolution fails, a missing-transform error is recorded
\* for its topic and it keeps its pose. A failure for one renderable does not stop
\* the others from being processed.
StartFrameProcessesEveryRenderable ==
    [][( Called("startFrame") /\ FramesKnown(lastCall') )
       => /\ visible'
          /\ ~thrown'
          /\ \A r \in Mapped(State) :
                LET before == renderables[r]
                    after == renderables'[r]
                IN /\ after.visible = before.settings.visible
                   /\ ~before.settings.visible =>
                         /\ \A e \in layerErrors' : e[1] # before.topic
                         /\ after.pose = before.pose
                   /\ (before.settings.visible /\ r \notin lastCall'.ok) =>
                         /\ <<before.topic, MISSING_TRANSFORM>> \in layerErrors'
                         /\ after.pose = before.pose
      ]_vars

\* startFrame has just run with both frame ids known over two renderables: the pose
\* of a visible one could not be resolved and its topic has the missing-transform
\* error, and one hidden by its settings is invisible, its pose could have been resolved
StartFrameFailedForOneOfTwo ==
    /\ lastCall.op = "startFrame"
    /\ FramesKnown(lastCall)
    /\ \E r1, r2 \in Mapped(State) :
          /\ renderables[r1].settings.visible
          /\ r1 \notin lastCall.ok
          /\ <<renderables[r1].topic, MISSING_TRANSFORM>> \in layerErrors
          /\ ~renderables[r2].settings.visible
          /\ ~renderables[r2].visible
          /\ r2 \in lastCall.ok
          /\ renderables[r2].pose = "identity"

\* the renderable of the topic of the last call after the call, 0 if it has none
TargetAfter == Get(imagesByTopic', lastCall'.topic)

\* C17 as claimed: after an update that did not throw, a renderable whose merged
\* settings select a camera-info topic with an available camera model has a live
\* geometry, built for that topic at the configured distance.
UpdateBuildsGeometryForSelectedTopic ==
    [][( /\ Updates
         /\ TargetAfter # 0
         /\ ~thrown'
         /\ renderables'[TargetAfter].settings.cameraInfoTopic \in cameraModels )
       => LET after == renderables'[TargetAfter]
          IN /\ after.geometry # 0
             /\ ~geometries'[after.geometry].disposed
             /\ geometries'[after.geometry].camera = after.settings.cameraInfoTopic
             /\ geometries'[after.geometry].distance = after.settings.distance
      ]_vars

\* C18 as claimed: the image stored on a topic's renderable is the image of the
\* most recent addImageMessage call for the topic: an addImageMessage step stores
\* its image, and no other step changes the stored image of a renderable.
StoredImageIsMostRecent ==
    [][/\ Called("addImageMessage") =>
             /\ TargetAfter # 0
             /\ renderables'[TargetAfter].image = lastCall'.image
       /\ ~Called("addImageMessage") =>
             \A r \in Renderables : renderables'[r].image = renderables[r].image
      ]_vars

\* the resource numbered i of the given kind is referenced by a renderable of R
Referenced(kind, i, R) == \E r \in R : renderables[r][kind] = i

\* C19 as claimed: every renderable has at most one mesh attached, the one it
\* holds, and every texture, material and geometry ever created is referenced by a
\* renderable of the topic map or has been disposed.
EveryResourceOwnedOrDisposed ==
    /\ \A r \in Mapped(State) :
          renderables[r].children \subseteq {renderables[r].mesh} \ {NoMesh}
    /\ \A i \in 1..Len(textures) :
          textures[i].disposed \/ Referenced("texture", i, Mapped(State))
    /\ \A i \in 1..Len(materials) :
          materials[i].disposed \/ Referenced("material", i, Mapped(State))
    /\ \A i \in 1..Len(geometries) :
          geometries[i].disposed \/ Referenced("geometry", i, Mapped(State))

\* C20 as claimed: after a startFrame with both frame ids known, no missing-transform
\* error is recorded for the topic of a visible renderable whose pose was resolved.
ResolvedPoseClearsMissingTransform ==
    [][( Called("startFrame") /\ FramesKnown(lastCall') )
       => \A r \in Mapped(State) :
             (renderables[r].settings.visible /\ r \in lastCall'.ok)
                 => <<renderables[r].topic, MISSING_TRANSFORM>> \notin layerErrors'
      ]_vars

-----------------------------------------------------------------------------
(* The end-to-end run: camera-info and image messages arrive, decodes settle and
   camera models load. Every decode started settles (a promise is fulfilled or
   rejected); nothing obliges further messages to arrive. *)

NextEndToEnd ==
    \/ AddCameraInfoMessage
    \/ AddImageMessage
    \/ BitmapResolved
    \/ BitmapRejected
    \/ CameraModelLoaded

SpecEndToEnd ==
    /\ Init
    /\ [][NextEndToEnd]_vars
    /\ WF_vars(BitmapResolved \/ BitmapRejected)

\* the user settings of topic in the configuration name no camera-info topic
NoExplicitCameraInfoTopic(topic) ==
    topic \notin DOMAIN config \/ CameraInfoTopicOf(config[topic]) = undefined

\* the image topics the user configured without a camera-info topic: only
\* auto-selection gives their renderables one in the end-to-end run
AutoSelecting ==
    {topic \in ImageTopics :
        \A c \in InitialConfigs :
            topic \notin DOMAIN c \/ CameraInfoTopicOf(c[topic]) = undefined}

\* the number of events in events with the given path
Count(events, path) == Cardinality({i \in 1..Len(events) : events[i] = path})

\* the decode of topic's image has succeeded and the camera model of the camera-info
\* topic its renderable selected is available
DecodedWithCameraModel(topic) ==
    /\ Get(imagesByTopic, topic) # 0
    /\ LET u == renderables[Get(imagesByTopic, topic)]
       IN /\ u.texture # 0
          /\ u.settings.cameraInfoTopic \in cameraModels
    /\ calls < MaxCalls

\* a mesh is attached to the renderable of topic
MeshAttached(topic) ==
    /\ Get(imagesByTopic, topic) # 0
    /\ renderables[Get(imagesByTopic, topic)].mesh # NoMesh

\* C14 as claimed: when a compressed image arrives for a topic with no explicit
\* cameraInfoTopic after a matching camera-info topic was added, the renderable
\* selects a matching camera-info topic and the event [topics, topic] is emitted
\* exactly once; and once the decode has succeeded and the camera model of the
\* selected topic is available, a mesh is eventually attached to the renderable.
EndToEndMeshAttaches ==
    /\ [][( /\ Called("addImageMessage")
            /\ lastCall'.image.format # ""
            /\ Target = 0
            /\ NoExplicitCameraInfoTopic(lastCall'.topic)
            /\ MatchingKnown(lastCall'.topic, cameraInfoTopics) # {} )
          => /\ Get(imagesByTopic', lastCall'.topic) # 0
             /\ renderables'[Get(imagesByTopic', lastCall'.topic)].settings.cameraInfoTopic
                    \in MatchingKnown(lastCall'.topic, cameraInfoTopics)
             /\ Count(emitted', <<"topics", lastCall'.topic>>) = 1
         ]_vars
    /\ \A topic \in AutoSelecting :
          DecodedWithCameraModel(topic) ~> MeshAttached(topic)

\* C14 amended: the selection and the single event as claimed; the mesh is attached
\* by a call, not by the camera model arriving: the decode that gives a renderable
\* its texture attaches the mesh if the renderable has a geometry by then, and an
\* addImageMessage call with a compressed image on a renderable that has its
\* texture attaches it if the camera model of the selected topic is available.
EndToEndMeshAttachesOnUpdate ==
    [][/\ ( /\ Called("addImageMessage")
            /\ lastCall'.image.format # ""
            /\ Target = 0
            /\ NoExplicitCameraInfoTopic(lastCall'.topic)
            /\ MatchingKnown(lastCall'.topic, cameraInfoTopics) # {} )
          => /\ TargetAfter # 0
             /\ renderables'[TargetAfter].settings.cameraInfoTopic
                    \in MatchingKnown(lastCall'.topic, cameraInfoTopics)
             /\ Count(emitted', <<"topics", lastCall'.topic>>) = 1
       /\ ( /\ Called("addImageMessage")
            /\ lastCall'.image.format # ""
            /\ Target # 0
            /\ renderables[Target].texture # 0
            /\ renderables'[Target].settings.cameraInfoTopic \in cameraModels )
          => /\ renderables'[Target].mesh # NoMesh
             /\ renderables'[Target].mesh \in renderables'[Target].children
       /\ Called("bitmapResolved")
          => \A r \in Renderables :
                ( /\ renderables[r].texture = 0
                  /\ renderables'[r].texture # 0
                  /\ renderables[r].geometry # 0 )
                => /\ renderables'[r].mesh # NoMesh
                   /\ renderables'[r].mesh \in renderables'[r].children
      ]_vars

\* a second compressed image has just been added for a topic whose camera-info
\* topic was auto-selected, after the decode of the first one had given the
\* renderable its texture: the renderable shows a mesh on its geometry
MeshAttachedBySecondImage ==
    /\ lastCall.op = "addImageMessage"
    /\ lastCall.topic \in AutoSelecting
    /\ lastCall.image.format # ""
    /\ MeshAttached(lastCall.topic)
    /\ LET u == renderables[Get(imagesByTopic, lastCall.topic)]
       IN /\ u.settings.cameraInfoTopic \in cameraModels
          /\ u.texture # 0
          /\ textures[u.texture].image # lastCall.image.data
          /\ u.mesh.geometry = u.geometry
          /\ u.mesh \in u.children

-----------------------------------------------------------------------------
(* The runs in which every decode succeeds: all calls of the manager, and the
   createBitmap promises fulfilled in any order, none rejected. *)

NextDecodes ==
    \/ AddImageMessage
    \/ AddCameraInfoMessage
    \/ SetTopicSettings
    \/ StartFrame
    \/ Dispose
    \/ BitmapResolved
    \/ CameraModelLoaded

SpecDecodes == Init /\ [][NextDecodes]_vars

\* C21 as claimed: when no decode is in flight any more for a renderable of the
\* topic map, all of them having succeeded, its texture holds the bitmap of the
\* image submitted last for it.
LatestSubmissionWins ==
    \A r \in Mapped(State) :
        (InFlight(pending, r) = 0 /\ renderables[r].texture # 0)
            => textures[renderables[r].texture].image = renderables[r].submitted

====
